---------------------------- MODULE Spec2Model ----------------------------
(***************************************************************************)
(* A model of two parts of the tracing backend:                            *)
(*   - tempodb/encoding/vparquet/block_findtracebyid.go: the point lookup  *)
(*     of a trace in a columnar block (bloom probe, binary search over the *)
(*     row groups, predicate scan, seek and read);                         *)
(*   - pkg/traceql/ast.go and ast_validate.go: the evaluation of a         *)
(*     pipeline over a list of spansets and the validation of the AST.     *)
(* Each part has its own specification over the shared variables:          *)
(* Spec (FindTraceByID), SpecEval (Pipeline.evaluate) and SpecValidate     *)
(* (validate).                                                             *)
(***************************************************************************)
EXTENDS Integers, Sequences, FiniteSets, TLC

VARIABLES
    \* ---- the block and the lookup's inputs (fixed during a call)
    rowGroups,      \* pf.RowGroups(): a sequence of row groups, each the
                    \* sequence of the trace ids of its rows
    meta,           \* b.meta: [MinID, MaxID]
    bloom,          \* the ids the bloom shard of traceID tests positive for
    traceID,        \* the id looked up
    \* ---- FindTraceByID's locals
    pc,             \* where the call is: checkBloom, open, search, scan,
                    \* seek, done
    rowGroupMins,   \* the call's cache of row group bounds, [0..n -> id]
    i, j,           \* binarySearch's interval
    rowGroup,       \* the row group binarySearch returned
    rowMatch,       \* the absolute row sought
    result,         \* what the call returned: [trace, err]
    \* ---- observation of the call's I/O
    events,         \* the I/O operations performed, in order
    openIters,      \* the column iterators open at the moment
    fault,          \* the storage failure injected into the call, if any
    \* ---- Pipeline.evaluate
    pipeline,       \* p.Elements
    input,          \* the list of spansets handed to evaluate
    evalPc,         \* idle, eval, done
    evalIdx,        \* the element the loop is at (1-based)
    evalResult,     \* the local result, then the list returned
    evalErr,        \* the error returned
    evalLog,        \* the calls of element.evaluate made: [idx, in, out, err]
    cancelledAt,    \* the number of elements evaluated when the caller's
                    \* cancellation token was cancelled, -1 while it is not
    \* ---- validate
    node,           \* the AST node validated
    validatePc,     \* idle, validate, done
    verdict,        \* the error validate returned
    \* ---- Static.Equals
    receiver,       \* s
    argument,       \* other
    equalsPc,       \* idle, equals, done
    equalsResult,   \* the boolean returned
    \* ---- two calls of FindTraceByID on one block
    callIDs,        \* the ids the two calls look up
    current,        \* the call whose locals the lookup's variables hold
    suspended,      \* the locals of the other call, which is not running
    alone,          \* what each call returned and did when it ran alone
    overlapped,     \* both calls have been in their search at the same time
    \* ---- binarySearch(n, compare)
    bsN,            \* n
    compare,        \* what compare answers for each index: [c, err]
    bsI, bsJ,       \* i, j
    bsPc,           \* idle, loop, done
    bsResult,       \* what binarySearch returned: [idx, err]
    bsCalls,        \* the indices compare was called on, in order
    \* ---- Pipeline.addItem
    heap,           \* the arrays that back the Elements slices
    pipes           \* the pipelines built: the slice header of Elements
                    \* [arr, len, cap], and where the pipeline comes from

findVars == <<rowGroups, meta, bloom, traceID, pc, rowGroupMins, i, j,
              rowGroup, rowMatch, result, events, openIters, fault>>

evalVars == <<pipeline, input, evalPc, evalIdx, evalResult, evalErr, evalLog,
              cancelledAt>>

validateVars == <<node, validatePc, verdict>>

equalsVars == <<receiver, argument, equalsPc, equalsResult>>

\* the state of the operations modelled after the first three
callVars == <<callIDs, current, suspended, alone, overlapped>>

searchVars == <<bsN, compare, bsI, bsJ, bsPc, bsResult, bsCalls>>

addVars == <<heap, pipes>>

extVars == <<equalsVars, callVars, searchVars, addVars>>

vars == <<findVars, evalVars, validateVars, extVars>>

-----------------------------------------------------------------------------
(* Bounds of the model *)

\* trace ids are the one-byte arrays <<0>> .. <<MaxByte>>
MaxByte == 5
\* a block has at most MaxRowGroups row groups of at most MaxRows rows each
MaxRowGroups == 3
MaxRows == 2

-----------------------------------------------------------------------------
(* Values *)

NilErr == "nil"
NilID == <<>>

\* a nil FieldExpression, and the nil error of validate
NilExpression == [kind |-> "nil"]
NoError == [msg |-> "nil", at |-> NilExpression]
NilTrace == [nil |-> TRUE, TraceID |-> NilID]

IDs == {<<b>> : b \in 0..MaxByte}

Min(a, b) == IF a < b THEN a ELSE b

\* bytes.Compare: the lexicographic comparison of two byte arrays
RECURSIVE Compare(_, _)
Compare(a, b) ==
    IF a = <<>> /\ b = <<>> THEN 0
    ELSE IF a = <<>> THEN -1
    ELSE IF b = <<>> THEN 1
    ELSE IF Head(a) < Head(b) THEN -1
    ELSE IF Head(a) > Head(b) THEN 1
    ELSE Compare(Tail(a), Tail(b))


-----------------------------------------------------------------------------
(* The blocks a call may meet: invariants I1 and I2 *)

SetMinimum(S) == CHOOSE x \in S : \A y \in S : x <= y
SetMaximum(S) == CHOOSE x \in S : \A y \in S : y <= x

RECURSIVE SortedSeq(_)
SortedSeq(S) ==
    IF S = {} THEN <<>>
    ELSE <<SetMinimum(S)>> \o SortedSeq(S \ {SetMinimum(S)})

\* the orders in which the ids of one row group may be stored: any order in
\* the first row group (its bound is meta.MinID), and any order that starts
\* with the smallest id in the others (their bound is their first value)
Orders(chunk, minFirst) ==
    {p \in [1..Len(chunk) -> {chunk[k] : k \in 1..Len(chunk)}] :
        /\ \A a, b \in 1..Len(chunk) : a # b => p[a] # p[b]
        /\ minFirst => p[1] = chunk[1]}

\* the ways to cut the sorted ids s into at most g row groups
RECURSIVE BlocksOf(_, _, _)
BlocksOf(s, g, minFirst) ==
    IF s = <<>> THEN {<<>>}
    ELSE IF g = 0 THEN {}
    ELSE UNION {
        {<<p>> \o rest : p \in Orders(SubSeq(s, 1, k), minFirst),
                         rest \in BlocksOf(SubSeq(s, k + 1, Len(s)), g - 1, TRUE)} :
        k \in 1..Min(MaxRows, Len(s))}

Blocks ==
    UNION {BlocksOf([k \in 1..Cardinality(S) |-> <<SortedSeq(S)[k]>>],
                    MaxRowGroups, FALSE) :
           S \in (SUBSET (0..MaxByte)) \ {{}}}

\* the ids stored in the block, and the file's rows in order
RECURSIVE Flatten(_)
Flatten(rgs) == IF rgs = <<>> THEN <<>> ELSE Head(rgs) \o Flatten(Tail(rgs))

StoredIDs == {Flatten(rowGroups)[k] : k \in 1..Len(Flatten(rowGroups))}

numRowGroups == Len(rowGroups)

\* rg.NumRows()
NumRows(rg) == Len(rg)


-----------------------------------------------------------------------------
(* FindTraceByID: the pure parts *)

Ev(op, arg) == [op |-> op, arg |-> arg]

\* what the storage may answer to a read
BloomOutcomes == {"ok", "bloomReadErr", "bloomParseErr"}
OpenOutcomes == {"ok", "openErr", "noTraceIDColumn"}
IterOutcomes == {"ok", "iterErr", "noValue"}
ReadOutcomes == {"ok", "seekErr", "readErr"}

\* filter.Test(id)
BloomTest(id) == id \in bloom

\* checkBloom with a shard that cannot be parsed taken for a miss
checkBloom_SwallowsParseError(id, o) ==
    IF o = "bloomReadErr" THEN [found |-> FALSE, err |-> "error retrieving bloom"]
    ELSE IF o = "bloomParseErr" THEN [found |-> FALSE, err |-> NilErr]
    ELSE [found |-> BloomTest(id), err |-> NilErr]

\* checkBloom that ignores the filter's answer
checkBloom_AlwaysFound(id, o) ==
    IF o = "bloomReadErr" THEN [found |-> FALSE, err |-> "error retrieving bloom"]
    ELSE IF o = "bloomParseErr" THEN [found |-> FALSE, err |-> "error parsing bloom"]
    ELSE [found |-> TRUE, err |-> NilErr]

\* checkBloom: read the shard, parse it, test the id
checkBloom(id, o) ==
    IF o = "bloomReadErr" THEN [found |-> FALSE, err |-> "error retrieving bloom"]
    ELSE IF o = "bloomParseErr" THEN [found |-> FALSE, err |-> "error parsing bloom"]
    ELSE [found |-> BloomTest(id), err |-> NilErr]

\* rowGroupMins as FindTraceByID creates it
NewRowGroupMins ==
    [[k \in 0..numRowGroups |-> NilID] EXCEPT ![0] = meta.MinID,
                                              ![numRowGroups] = meta.MaxID]

\* getRowGroupMin that does not keep what it read
getRowGroupMin_NoCache(mins, rgIdx, o) ==
    IF Len(mins[rgIdx]) > 0
    THEN [min |-> mins[rgIdx], err |-> NilErr, mins |-> mins, ev |-> <<>>]
    ELSE LET io == <<Ev("iter.Open", rgIdx), Ev("iter.Next", rgIdx),
                     Ev("iter.Close", rgIdx)>>
         IN  IF o = "iterErr"
             THEN [min |-> NilID, err |-> "iter.Next", mins |-> mins, ev |-> io]
             ELSE IF o = "noValue" \/ rowGroups[rgIdx + 1] = <<>>
             THEN [min |-> NilID, err |-> "failed to read 1 value from row group",
                   mins |-> mins, ev |-> io]
             ELSE [min |-> rowGroups[rgIdx + 1][1], err |-> NilErr,
                   mins |-> mins, ev |-> io]

\* getRowGroupMin: the cached bound, or the first value of the row group read
\* through a column iterator that is closed when the function returns
getRowGroupMin(mins, rgIdx, o) ==
    IF Len(mins[rgIdx]) > 0
    THEN [min |-> mins[rgIdx], err |-> NilErr, mins |-> mins, ev |-> <<>>]
    ELSE LET io == <<Ev("iter.Open", rgIdx), Ev("iter.Next", rgIdx),
                     Ev("iter.Close", rgIdx)>>
         IN  IF o = "iterErr"
             THEN [min |-> NilID, err |-> "iter.Next", mins |-> mins, ev |-> io]
             ELSE IF o = "noValue" \/ rowGroups[rgIdx + 1] = <<>>
             THEN [min |-> NilID, err |-> "failed to read 1 value from row group",
                   mins |-> mins, ev |-> io]
             ELSE [min |-> rowGroups[rgIdx + 1][1], err |-> NilErr,
                   mins |-> [mins EXCEPT ![rgIdx] = rowGroups[rgIdx + 1][1]],
                   ev |-> io]

\* the upper bound taken as exclusive for the last row group too
AfterGroup_LastExclusive(check, rgIdx) == check >= 0

\* the upper bound taken as inclusive for every row group
AfterGroup_AllInclusive(check, rgIdx) == check > 0

\* the comparator's verdict on the upper bound: the trace is after the group
AfterGroup(check, rgIdx) ==
    check > 0 \/ (check = 0 /\ rgIdx < numRowGroups - 1)

\* the comparator handed to binarySearch
Comparator(mins, rgIdx, o1, o2) ==
    LET lo == getRowGroupMin(mins, rgIdx, o1) IN
    IF lo.err # NilErr
    THEN [c |-> 0, err |-> lo.err, mins |-> lo.mins, ev |-> lo.ev]
    ELSE IF Compare(traceID, lo.min) <= 0
    THEN [c |-> Compare(traceID, lo.min), err |-> NilErr, mins |-> lo.mins,
          ev |-> lo.ev]
    ELSE LET hi == getRowGroupMin(lo.mins, rgIdx + 1, o2) IN
         IF hi.err # NilErr
         THEN [c |-> 0, err |-> hi.err, mins |-> hi.mins, ev |-> lo.ev \o hi.ev]
         ELSE [c |-> IF AfterGroup(Compare(traceID, hi.min), rgIdx) THEN 1 ELSE 0,
               err |-> NilErr, mins |-> hi.mins, ev |-> lo.ev \o hi.ev]

\* binarySearch's probe: h := int(uint(i+j) >> 1)
Midpoint(lo, hi) == (lo + hi) \div 2

\* the predicate iterator's Next over one row group: the number, relative to
\* the row group, of the first row whose id is the one sought, or -1 (nil)
IterNextMatch(rg, id) ==
    IF \E k \in 1..Len(rg) : rg[k] = id
    THEN (CHOOSE k \in 1..Len(rg) : rg[k] = id /\ \A m \in 1..(k - 1) : rg[m] # id) - 1
    ELSE -1

\* the sum of NumRows() of the row groups before rg
RECURSIVE RowsBefore(_)
RowsBefore(rg) ==
    IF rg = 0 THEN 0 ELSE RowsBefore(rg - 1) + NumRows(rowGroups[rg])

\* the relative row number taken for the absolute one
AbsoluteRow_NoOffset(rg, rel) == rel

\* rowMatch: the row number relative to the row group, offset by the rows of
\* all previous groups
AbsoluteRow(rg, rel) == RowsBefore(rg) + rel

\* r.SeekToRow(row); r.Read(tr); parquetTraceToTempopbTrace(tr)
ReadRow(row) == [nil |-> FALSE, TraceID |-> Flatten(rowGroups)[row + 1]]


-----------------------------------------------------------------------------
(* FindTraceByID: the call, one action per I/O step *)

\* the scan's iterator left open
DeferredClose_Forgotten(open) == [ev |-> <<>>, open |-> open]

\* the deferred iter.Close() of the scan's iterator, run when the call returns
DeferredClose(open) ==
    [ev |-> [k \in 1..Len(open) |-> Ev("iter.Close", open[k])], open |-> <<>>]

\* return (tr, err): the deferred calls run, the call is over
Return(tr, err, ev, open) ==
    /\ result' = [trace |-> tr, err |-> err]
    /\ events' = ev \o DeferredClose(open).ev
    /\ openIters' = DeferredClose(open).open
    /\ pc' = "done"

Inject(o) == fault' = IF o = "ok" THEN fault ELSE o

\* lines 64-70: the bloom probe and the two early returns
CheckBloom ==
    /\ pc = "checkBloom"
    /\ \E o \in BloomOutcomes :
         LET r  == checkBloom(traceID, o)
             ev == Append(events, Ev("bloom.Read", 0))
         IN  /\ Inject(o)
             /\ IF r.err # NilErr THEN Return(NilTrace, r.err, ev, openIters)
                ELSE IF ~r.found THEN Return(NilTrace, NilErr, ev, openIters)
                ELSE /\ pc' = "open"
                     /\ events' = ev
                     /\ UNCHANGED <<result, openIters>>
    /\ UNCHANGED <<rowGroups, meta, bloom, traceID, rowGroupMins, i, j,
                   rowGroup, rowMatch>>
    /\ UNCHANGED <<evalVars, validateVars, extVars>>

\* lines 72-92: open the columnar file, find the TraceID column, create the
\* cache of bounds; binarySearch starts with i, j := 0, n
OpenForSearch ==
    /\ pc = "open"
    /\ \E o \in OpenOutcomes :
         LET ev == Append(events, Ev("openForSearch", 0))
         IN  /\ Inject(o)
             /\ IF o = "openErr"
                THEN /\ Return(NilTrace, "unexpected error opening parquet file",
                               ev, openIters)
                     /\ UNCHANGED <<rowGroupMins, i, j>>
                ELSE IF o = "noTraceIDColumn"
                THEN /\ Return(NilTrace, "unable to get index for column", ev,
                               openIters)
                     /\ UNCHANGED <<rowGroupMins, i, j>>
                ELSE /\ rowGroupMins' = NewRowGroupMins
                     /\ i' = 0
                     /\ j' = numRowGroups
                     /\ pc' = "search"
                     /\ events' = ev
                     /\ UNCHANGED <<result, openIters>>
    /\ UNCHANGED <<rowGroups, meta, bloom, traceID, rowGroup, rowMatch>>
    /\ UNCHANGED <<evalVars, validateVars, extVars>>

\* lines 207-223 with the comparator of lines 123-149: one iteration of
\* binarySearch's loop; an error of the comparator ends the call (151-153),
\* a comparison of 0 ends the search with the row group found
SearchStep ==
    /\ pc = "search"
    /\ i < j
    /\ \E o1, o2 \in IterOutcomes :
         LET h   == Midpoint(i, j)
             cmp == Comparator(rowGroupMins, h, o1, o2)
             ev  == events \o cmp.ev
         IN  /\ (o1 # "ok" \/ o2 # "ok") => cmp.err # NilErr
             /\ o1 # "ok" => o2 = "ok"
             /\ fault' = IF cmp.err = NilErr THEN fault
                         ELSE IF o1 # "ok" THEN o1 ELSE o2
             /\ rowGroupMins' = cmp.mins
             /\ IF cmp.err # NilErr
                THEN /\ Return(NilTrace, "error binary searching row groups",
                               ev, openIters)
                     /\ UNCHANGED <<i, j, rowGroup>>
                ELSE /\ events' = ev
                     /\ UNCHANGED <<result, openIters>>
                     /\ CASE cmp.c = 0  -> /\ rowGroup' = h
                                           /\ pc' = "scan"
                                           /\ UNCHANGED <<i, j>>
                          [] cmp.c = -1 -> /\ j' = h
                                           /\ UNCHANGED <<i, rowGroup, pc>>
                          [] cmp.c = 1  -> /\ i' = h + 1
                                           /\ UNCHANGED <<j, rowGroup, pc>>
    /\ UNCHANGED <<rowGroups, meta, bloom, traceID, rowMatch>>
    /\ UNCHANGED <<evalVars, validateVars, extVars>>

\* lines 225-226 and 155-158: the interval is empty, binarySearch returns -1
\* and the call returns not found
SearchMiss ==
    /\ pc = "search"
    /\ i >= j
    /\ rowGroup' = -1
    /\ Return(NilTrace, NilErr, events, openIters)
    /\ UNCHANGED <<rowGroups, meta, bloom, traceID, rowGroupMins, i, j,
                   rowMatch, fault>>
    /\ UNCHANGED <<evalVars, validateVars, extVars>>

\* lines 160-179: scan the matching row group for the id, compute the row
Scan ==
    /\ pc = "scan"
    /\ \E o \in {"ok", "iterErr"} :
         LET rel  == IterNextMatch(rowGroups[rowGroup + 1], traceID)
             open == Append(openIters, rowGroup)
             ev   == events \o <<Ev("iter.Open", rowGroup), Ev("iter.Next", rowGroup)>>
         IN  /\ Inject(o)
             /\ IF o = "iterErr"
                THEN /\ Return(NilTrace, "iter.Next", ev, open)
                     /\ UNCHANGED rowMatch
                ELSE IF rel = -1
                THEN /\ Return(NilTrace, NilErr, ev, open)
                     /\ UNCHANGED rowMatch
                ELSE /\ rowMatch' = AbsoluteRow(rowGroup, rel)
                     /\ pc' = "seek"
                     /\ events' = ev
                     /\ openIters' = open
                     /\ UNCHANGED result
    /\ UNCHANGED <<rowGroups, meta, bloom, traceID, rowGroupMins, i, j, rowGroup>>
    /\ UNCHANGED <<evalVars, validateVars, extVars>>

\* a row that cannot be read taken for a trace that is not there
SeekAndRead_ReadErrorIsNotFound ==
    /\ pc = "seek"
    /\ \E o \in ReadOutcomes :
         /\ Inject(o)
         /\ IF o = "seekErr"
            THEN Return(NilTrace, "seek to row",
                        Append(events, Ev("SeekToRow", rowMatch)), openIters)
            ELSE IF o = "readErr"
            THEN Return(NilTrace, NilErr,
                        events \o <<Ev("SeekToRow", rowMatch), Ev("Read", rowMatch)>>,
                        openIters)
            ELSE Return(ReadRow(rowMatch), NilErr,
                        events \o <<Ev("SeekToRow", rowMatch), Ev("Read", rowMatch)>>,
                        openIters)
    /\ UNCHANGED <<rowGroups, meta, bloom, traceID, rowGroupMins, i, j,
                   rowGroup, rowMatch>>
    /\ UNCHANGED <<evalVars, validateVars, extVars>>

\* lines 181-199: seek to the row, read it, return the trace
SeekAndRead ==
    /\ pc = "seek"
    /\ \E o \in ReadOutcomes :
         /\ Inject(o)
         /\ IF o = "seekErr"
            THEN Return(NilTrace, "seek to row",
                        Append(events, Ev("SeekToRow", rowMatch)), openIters)
            ELSE IF o = "readErr"
            THEN Return(NilTrace, "error reading row from backend",
                        events \o <<Ev("SeekToRow", rowMatch), Ev("Read", rowMatch)>>,
                        openIters)
            ELSE Return(ReadRow(rowMatch), NilErr,
                        events \o <<Ev("SeekToRow", rowMatch), Ev("Read", rowMatch)>>,
                        openIters)
    /\ UNCHANGED <<rowGroups, meta, bloom, traceID, rowGroupMins, i, j,
                   rowGroup, rowMatch>>
    /\ UNCHANGED <<evalVars, validateVars, extVars>>

\* no evaluation and no validation is going on
EvalIdle ==
    /\ pipeline = <<>>
    /\ input = <<>>
    /\ evalPc = "idle"
    /\ evalIdx = 0
    /\ evalResult = <<>>
    /\ evalErr = NilErr
    /\ evalLog = <<>>
    /\ cancelledAt = -1

ValidateIdle ==
    /\ node = NilExpression
    /\ validatePc = "idle"
    /\ verdict = NoError

\* no Static is compared
EqualsIdle ==
    /\ receiver = NilExpression
    /\ argument = NilExpression
    /\ equalsPc = "idle"
    /\ equalsResult = FALSE

\* the locals of a call that has not started, for the id it looks up
FreshFrame(id) ==
    [traceID |-> id, pc |-> "checkBloom", rowGroupMins |-> <<>>, i |-> 0, j |-> 0,
     rowGroup |-> -1, rowMatch |-> -1,
     result |-> [trace |-> NilTrace, err |-> NilErr],
     events |-> <<>>, openIters |-> <<>>]

NoFrame == [FreshFrame(NilID) EXCEPT !.pc = "idle"]

\* there is no second call
CallIdle ==
    /\ callIDs = <<>>
    /\ current = 1
    /\ suspended = NoFrame
    /\ alone = <<>>
    /\ overlapped = FALSE

\* binarySearch is not called
SearchIdle ==
    /\ bsN = 0
    /\ compare = <<>>
    /\ bsI = 0
    /\ bsJ = 0
    /\ bsPc = "idle"
    /\ bsResult = [idx |-> -1, err |-> NilErr]
    /\ bsCalls = <<>>

\* no pipeline is built
AddIdle ==
    /\ heap = <<>>
    /\ pipes = <<>>

ExtIdle ==
    /\ EqualsIdle
    /\ CallIdle
    /\ SearchIdle
    /\ AddIdle

\* a call of FindTraceByID on a block that satisfies I1 and I2, for any id,
\* with a bloom shard that has no false negatives
Init ==
    /\ rowGroups \in Blocks
    /\ meta = [MinID |-> <<SetMinimum({x[1] : x \in StoredIDs})>>,
               MaxID |-> <<SetMaximum({x[1] : x \in StoredIDs})>>]
    /\ traceID \in IDs
    /\ bloom \in {StoredIDs, StoredIDs \cup {traceID}}
    /\ pc = "checkBloom"
    /\ rowGroupMins = <<>>
    /\ i = 0
    /\ j = 0
    /\ rowGroup = -1
    /\ rowMatch = -1
    /\ result = [trace |-> NilTrace, err |-> NilErr]
    /\ events = <<>>
    /\ openIters = <<>>
    /\ fault = "ok"
    /\ EvalIdle
    /\ ValidateIdle
    /\ ExtIdle

Next ==
    \/ CheckBloom
    \/ OpenForSearch
    \/ SearchStep
    \/ SearchMiss
    \/ Scan
    \/ SeekAndRead

Spec == Init /\ [][Next]_vars


-----------------------------------------------------------------------------
(* Properties of FindTraceByID, checked under Spec *)

\* the events of the call that are the operation op
EventsOf(op) == {k \in 1..Len(events) : events[k].op = op}

\* the call returned, and the storage answered every read
ReturnedUnfaulted == pc = "done" /\ fault = "ok"

NotFoundResult == [trace |-> NilTrace, err |-> NilErr]

\* the bound of row group r (0-based) as I2 states it: meta.MinID for the
\* first row group, the first id stored in the row group for the others
BoundOf(r) == IF r = 0 THEN meta.MinID[1] ELSE rowGroups[r + 1][1][1]

\* the row group that owns id by I2, -1 when id is outside [MinID, MaxID]
OwnerOf(id) ==
    IF id[1] < meta.MinID[1] \/ id[1] > meta.MaxID[1] THEN -1
    ELSE CHOOSE r \in 0..(numRowGroups - 1) :
            /\ BoundOf(r) <= id[1]
            /\ r < numRowGroups - 1 => id[1] < BoundOf(r + 1)

\* C1: on a block that satisfies I1/I2, with a bloom filter without false
\* negatives and a storage that answers every read, FindTraceByID returns a
\* non-nil trace with a nil error if and only if the id is stored in the
\* block; the record it reads is the one at the absolute row (rows of all the
\* row groups before the owning one) + (row of the id relative to the owning
\* row group); and a non-nil trace is never returned for an id that is not
\* stored, whatever the bloom filter said.
C1_FoundIffStored ==
    /\ ReturnedUnfaulted =>
         ((result.trace # NilTrace /\ result.err = NilErr) <=> traceID \in StoredIDs)
    /\ (pc = "done" /\ result.trace # NilTrace) =>
         /\ traceID \in StoredIDs
         /\ result.err = NilErr
         /\ result.trace.TraceID = traceID
         /\ \E g \in 1..numRowGroups : \E k \in 1..Len(rowGroups[g]) :
              /\ rowGroups[g][k] = traceID
              /\ rowGroup = g - 1
              /\ rowMatch = Len(Flatten(SubSeq(rowGroups, 1, g - 1))) + (k - 1)
              /\ {events[n] : n \in EventsOf("Read")} = {Ev("Read", rowMatch)}

\* C1's case: the id is found in a later row group, at a row that is not the
\* first of its row group
C1_Witness ==
    /\ pc = "done"
    /\ result.trace # NilTrace
    /\ rowGroup >= 1
    /\ rowMatch > Len(Flatten(SubSeq(rowGroups, 1, rowGroup)))

\* C2: the bloom probe is the first I/O operation of every call: the columnar
\* file is opened and columns are read only after it, and only when the shard
\* reported a hit; when the shard reports a miss the call returns (nil, nil)
\* and the bloom read is the only I/O operation it performed.
C2_BloomBeforeColumns ==
    /\ \A k \in 1..Len(events) :
         events[k].op # "bloom.Read" =>
            /\ k > 1
            /\ events[1].op = "bloom.Read"
            /\ BloomTest(traceID)
    /\ (ReturnedUnfaulted /\ ~BloomTest(traceID)) =>
         /\ result = NotFoundResult
         /\ events = <<Ev("bloom.Read", 0)>>

\* C2's case: the shard reported a miss and the call returned
C2_Witness ==
    /\ ReturnedUnfaulted
    /\ ~BloomTest(traceID)
    /\ events = <<Ev("bloom.Read", 0)>>

\* C3: the binary search returns the row group whose bracket holds the id: r
\* when the id equals the bound of r or lies strictly between the bounds of r
\* and r+1, the last row group when the id equals MaxID, and -1 when the id
\* is below MinID or above MaxID, in which case the call returns (nil, nil).
C3_BracketSearch ==
    /\ pc \in {"scan", "seek"} => rowGroup = OwnerOf(traceID) /\ rowGroup # -1
    /\ (ReturnedUnfaulted /\ BloomTest(traceID)) =>
         /\ rowGroup = OwnerOf(traceID)
         /\ rowGroup = -1 => result = NotFoundResult
    /\ (pc \in {"scan", "seek"} /\ traceID = meta.MaxID) =>
         rowGroup = numRowGroups - 1

\* C3's case: the id is the first id of a row group that is not the first,
\* and the search returned that row group
C3_Witness ==
    /\ pc = "scan"
    /\ rowGroup >= 1
    /\ traceID = rowGroups[rowGroup + 1][1]

\* C4: when reading the bloom shard fails or the shard cannot be parsed, the
\* call returns a nil trace with checkBloom's error, not (nil, nil), and the
\* columnar file is not opened.
C4_BloomFailureIsAnError ==
    (pc = "done" /\ fault \in {"bloomReadErr", "bloomParseErr"}) =>
        /\ result.trace = NilTrace
        /\ result.err = (IF fault = "bloomReadErr" THEN "error retrieving bloom"
                         ELSE "error parsing bloom")
        /\ events = <<Ev("bloom.Read", 0)>>

\* C4's case: the shard of a stored id could not be parsed
C4_Witness ==
    /\ pc = "done"
    /\ fault = "bloomParseErr"
    /\ traceID \in StoredIDs

\* the call returned on a bloom false positive: the shard reported a hit, the
\* id is within the block's bounds and its owning row group does not hold it
FalsePositiveReturned ==
    /\ ReturnedUnfaulted
    /\ BloomTest(traceID)
    /\ traceID \notin StoredIDs
    /\ rowGroup # -1

\* C5 as stated: on a bloom false positive the call returns (nil, nil),
\* exactly one column iterator was opened during the call, and it is closed.
C5_Original ==
    FalsePositiveReturned =>
        /\ result = NotFoundResult
        /\ Cardinality(EventsOf("iter.Open")) = 1
        /\ openIters = <<>>

\* the interior bounds the search loaded from storage
LoadedBounds == {r \in 1..(numRowGroups - 1) : rowGroupMins[r] # NilID}

\* C5, amended: on a bloom false positive the call returns (nil, nil);
\* exactly one column iterator was opened to scan the owning row group, after
\* one single-value iterator for each interior bound the binary search
\* loaded; and every iterator opened is closed when the call returns.
C5_FalsePositive ==
    FalsePositiveReturned =>
        /\ result = NotFoundResult
        /\ Cardinality(EventsOf("iter.Open")) = 1 + Cardinality(LoadedBounds)
        /\ Cardinality(EventsOf("iter.Close")) = Cardinality(EventsOf("iter.Open"))
        /\ events[Len(events)] = Ev("iter.Close", rowGroup)
        /\ events[Len(events) - 2] = Ev("iter.Open", rowGroup)
        /\ \A k \in EventsOf("iter.Open") :
              k < Len(events) - 2 =>
                 /\ events[k].arg \in LoadedBounds
                 /\ events[k + 2] = Ev("iter.Close", events[k].arg)
        /\ openIters = <<>>

\* C5's case: a false positive in a block whose search loaded a bound
C5_Witness ==
    /\ FalsePositiveReturned
    /\ LoadedBounds # {}

\* the comparator's answer at row group r, with the bounds cached so far
ComparisonAt(r) == Comparator(rowGroupMins, r, "ok", "ok").c

\* C6: the comparator is monotone: at most one row group compares 0, every
\* row group left of it compares 1 and every row group right of it -1.
C6_ComparatorMonotone ==
    pc \in {"search", "scan", "seek"} =>
        \A r \in 0..(numRowGroups - 1) :
            ComparisonAt(r) = 0 =>
                \A k \in 0..(numRowGroups - 1) :
                    /\ k < r => ComparisonAt(k) = 1
                    /\ k > r => ComparisonAt(k) = -1

\* C6's case: a block of three row groups whose middle one compares 0
C6_Witness ==
    /\ pc = "search"
    /\ numRowGroups >= 3
    /\ ComparisonAt(1) = 0


-----------------------------------------------------------------------------
(* TraceQL: values *)

\* an evaluated list holds at most MaxSpansets spansets and MaxTotalSpans
\* spans in all; a pipeline has at most MaxElements elements
MaxSpansets == 2
MaxTotalSpans == 2
MaxElements == 2

TypeSpanset == "spanset"
TypeAttribute == "attribute"
TypeInt == "int"
TypeFloat == "float"
TypeString == "string"
TypeBoolean == "bool"
TypeNil == "nil"
TypeDuration == "duration"
TypeStatus == "status"

\* the Static struct: every payload slot is there, the constructors fill the
\* one of the type; a float64 is written in decimal
ZeroStatic ==
    [kind |-> "Static", Type |-> TypeNil, N |-> 0, F |-> "0.0", S |-> "", B |-> FALSE,
     D |-> 0, Status |-> 0]

NewStaticInt(n) == [ZeroStatic EXCEPT !.Type = TypeInt, !.N = n]
NewStaticFloat(f) == [ZeroStatic EXCEPT !.Type = TypeFloat, !.F = f]
NewStaticString(str) == [ZeroStatic EXCEPT !.Type = TypeString, !.S = str]
NewStaticBool(b) == [ZeroStatic EXCEPT !.Type = TypeBoolean, !.B = b]
NewStaticNil == [ZeroStatic EXCEPT !.Type = TypeNil]
NewStaticDuration(d) == [ZeroStatic EXCEPT !.Type = TypeDuration, !.D = d]
NewStaticStatus(st) == [ZeroStatic EXCEPT !.Type = TypeStatus, !.Status = st]

\* a float64 that is not a number
NaN == "NaN"

\* == on two float64: a NaN equals nothing, itself included
FloatEq(a, b) == a # NaN /\ b # NaN /\ a = b

\* == on two Static structs: every field compared with ==
StructEq(a, b) ==
    /\ a.Type = b.Type
    /\ a.N = b.N
    /\ FloatEq(a.F, b.F)
    /\ a.S = b.S
    /\ a.B = b.B
    /\ a.D = b.D
    /\ a.Status = b.Status

\* the conversion Status(n) of an int
StatusOf(n) == n

\* Equals that knows a Status receiver and an Int argument only
Equals_StatusReceiverOnly(a, b) ==
    LET eitherIsTypeStatus == a.Type = TypeStatus /\ b.Type = TypeInt
    IN  IF ~eitherIsTypeStatus THEN StructEq(a, b)
        ELSE a.Status = StatusOf(b.N)

\* Static.Equals
Equals(a, b) ==
    LET eitherIsTypeStatus ==
            \/ (a.Type = TypeStatus /\ b.Type = TypeInt)
            \/ (b.Type = TypeStatus /\ a.Type = TypeInt)
    IN  IF ~eitherIsTypeStatus THEN StructEq(a, b)
        ELSE IF a.Type = TypeStatus THEN a.Status = StatusOf(b.N)
        ELSE StatusOf(a.N) = b.Status

\* the intrinsics of an attribute
IntrinsicNone == "none"
IntrinsicDuration == "duration"
IntrinsicChildCount == "childCount"
IntrinsicName == "name"
IntrinsicStatus == "status"
IntrinsicParent == "parent"

NewAttribute(att) ==
    [kind |-> "Attribute", Scope |-> "none", Parent |-> FALSE, Name |-> att,
     Intrinsic |-> IntrinsicNone]

NewIntrinsic(n) ==
    [kind |-> "Attribute", Scope |-> "none", Parent |-> FALSE, Name |-> n,
     Intrinsic |-> n]

newPipeline(elements) == [kind |-> "Pipeline", Elements |-> elements]
newGroupOperation(e) == [kind |-> "GroupOperation", Expression |-> e]
newCoalesceOperation == [kind |-> "CoalesceOperation"]
newScalarOperation(op, lhs, rhs) ==
    [kind |-> "ScalarOperation", Op |-> op, LHS |-> lhs, RHS |-> rhs]
newAggregate(agg, e) == [kind |-> "Aggregate", agg |-> agg, e |-> e]
newSpansetOperation(op, lhs, rhs) ==
    [kind |-> "SpansetOperation", Op |-> op, LHS |-> lhs, RHS |-> rhs]
newSpansetFilter(e) == [kind |-> "SpansetFilter", Expression |-> e]
newScalarFilter(op, lhs, rhs) ==
    [kind |-> "ScalarFilter", op |-> op, lhs |-> lhs, rhs |-> rhs]
newBinaryOperation(op, lhs, rhs) ==
    [kind |-> "BinaryOperation", Op |-> op, LHS |-> lhs, RHS |-> rhs]
newUnaryOperation(op, e) == [kind |-> "UnaryOperation", Op |-> op, Expression |-> e]

-----------------------------------------------------------------------------
(* TraceQL: the evaluation of a pipeline *)

\* what executing the filter's expression yields on a span: the span's value
\* of the attribute .x, true, false or nil (the attribute is missing), or an
\* error
ExecFails == [kind |-> "ExecFails"]
SpanValues == {NewStaticBool(TRUE), NewStaticBool(FALSE), NewStaticNil, ExecFails}

\* the field expressions of the filters evaluated: the attribute .x and the
\* literal false
AttributeX == NewAttribute("x")
FilterExpressions == {AttributeX, NewStaticBool(FALSE)}

\* the pipeline elements evaluated: the filters, and count() > 1, count(),
\* by(.x) and coalesce()
PipelineElements ==
    {newSpansetFilter(e) : e \in FilterExpressions}
    \cup {newScalarFilter("OpGreater", newAggregate("count", NilExpression),
                          NewStaticInt(1)),
          newAggregate("count", NilExpression),
          newGroupOperation(AttributeX),
          newCoalesceOperation}

\* the sequences over S of length at most n
RECURSIVE SeqsUpTo(_, _)
SeqsUpTo(S, n) ==
    IF n = 0 THEN {<<>>}
    ELSE SeqsUpTo(S, n - 1)
         \cup {Append(q, x) : q \in {q \in SeqsUpTo(S, n - 1) : Len(q) = n - 1}, x \in S}

\* the sequences over S of length n
SeqsOfLen(S, n) == {q \in SeqsUpTo(S, n) : Len(q) = n}

Pipelines == SeqsUpTo(PipelineElements, MaxElements)

\* the lists of at most n spansets (each the sequence of its spans' values)
\* that hold at most budget spans in all
RECURSIVE ValueLists(_, _)
ValueLists(n, budget) ==
    IF n = 0 THEN {<<>>}
    ELSE {<<>>} \cup UNION {
            {<<spans>> \o rest : spans \in SeqsOfLen(SpanValues, c),
                                 rest \in ValueLists(n - 1, budget - c)} :
            c \in 0..budget}

\* the spansets of a list of values: every spanset and every span has its
\* own identity
SpansetsOf(values) ==
    [a \in 1..Len(values) |->
        [ID |-> a,
         Spans |-> [b \in 1..Len(values[a]) |-> [ID |-> <<a, b>>, x |-> values[a][b]]]]]

Inputs == {SpansetsOf(v) : v \in ValueLists(MaxSpansets, MaxTotalSpans)}

\* f.Expression.execute(s)
execute(e, span) ==
    IF e.kind = "Static" THEN [static |-> e, err |-> NilErr]
    ELSE IF span.x = ExecFails THEN [static |-> NewStaticNil, err |-> "execute"]
    ELSE [static |-> span.x, err |-> NilErr]

\* a span is kept whatever the type of its result
KeepSpan_KeepsNonBoolean(r) == r.Type # TypeBoolean \/ r.B

\* lines 240-246: the span is kept when neither continue is taken
KeepSpan(r) == r.Type = TypeBoolean /\ r.B

\* matchingSpans declared outside the loop over the spansets
NewMatchingSpans_Shared(output) ==
    IF output = <<>> THEN <<>> ELSE output[Len(output)].Spans

\* line 233: var matchingSpans []Span, for each spanset
NewMatchingSpans(output) == <<>>

\* lines 234-249: the loop over the spans of one spanset
RECURSIVE MatchSpans(_, _, _)
MatchSpans(e, spans, matchingSpans) ==
    IF spans = <<>> THEN [spans |-> matchingSpans, err |-> NilErr]
    ELSE LET r == execute(e, Head(spans)) IN
         IF r.err # NilErr THEN [spans |-> <<>>, err |-> r.err]
         ELSE MatchSpans(e, Tail(spans),
                         IF KeepSpan(r.static) THEN Append(matchingSpans, Head(spans))
                         ELSE matchingSpans)

\* lines 228-258: the loop over the spansets
RECURSIVE FilterSpansets(_, _, _)
FilterSpansets(e, in, output) ==
    IF in = <<>> THEN [result |-> output, err |-> NilErr]
    ELSE LET ss == Head(in) IN
         IF Len(ss.Spans) = 0 THEN FilterSpansets(e, Tail(in), output)
         ELSE LET m == MatchSpans(e, ss.Spans, NewMatchingSpans(output)) IN
              IF m.err # NilErr THEN [result |-> <<>>, err |-> m.err]
              ELSE IF Len(m.spans) = 0 THEN FilterSpansets(e, Tail(in), output)
              ELSE FilterSpansets(e, Tail(in),
                                  Append(output, [ss EXCEPT !.Spans = m.spans]))

\* a ScalarFilter that drops what it is handed
evaluate_ScalarFilterDrops(element, ss) ==
    IF element.kind = "SpansetFilter"
    THEN FilterSpansets(element.Expression, ss, <<>>)
    ELSE IF element.kind = "ScalarFilter"
    THEN [result |-> <<>>, err |-> NilErr]
    ELSE [result |-> ss, err |-> NilErr]

\* element.evaluate(ss): SpansetFilter.evaluate, and the elements that
\* return their input
evaluate(element, ss) ==
    IF element.kind = "SpansetFilter"
    THEN FilterSpansets(element.Expression, ss, <<>>)
    ELSE [result |-> ss, err |-> NilErr]

\* the loop goes on over an empty result
ShortCircuit_Never(r) == FALSE

\* line 85: if len(result) == 0
ShortCircuit(r) == Len(r) = 0

\* lines 79-88: one iteration of Pipeline.evaluate's loop
EvaluateElement ==
    /\ evalPc = "eval"
    /\ evalIdx <= Len(pipeline)
    /\ LET out == evaluate(pipeline[evalIdx], evalResult) IN
        /\ evalLog' = Append(evalLog, [idx |-> evalIdx, in |-> evalResult,
                                       out |-> out.result, err |-> out.err])
        /\ IF out.err # NilErr
           THEN /\ evalResult' = <<>>
                /\ evalErr' = out.err
                /\ evalPc' = "done"
                /\ UNCHANGED evalIdx
           ELSE IF ShortCircuit(out.result)
           THEN /\ evalResult' = <<>>
                /\ evalPc' = "done"
                /\ UNCHANGED <<evalIdx, evalErr>>
           ELSE /\ evalResult' = out.result
                /\ evalIdx' = evalIdx + 1
                /\ UNCHANGED <<evalPc, evalErr>>
    /\ UNCHANGED <<pipeline, input, cancelledAt>>
    /\ UNCHANGED <<findVars, validateVars, extVars>>

\* line 90: the loop is over, return result, nil
EvaluateReturn ==
    /\ evalPc = "eval"
    /\ evalIdx > Len(pipeline)
    /\ evalPc' = "done"
    /\ UNCHANGED <<pipeline, input, evalIdx, evalResult, evalErr, evalLog,
                   cancelledAt>>
    /\ UNCHANGED <<findVars, validateVars, extVars>>

\* no lookup is going on
FindIdle ==
    /\ rowGroups = <<>>
    /\ meta = [MinID |-> NilID, MaxID |-> NilID]
    /\ bloom = {}
    /\ traceID = NilID
    /\ pc = "idle"
    /\ rowGroupMins = <<>>
    /\ i = 0
    /\ j = 0
    /\ rowGroup = -1
    /\ rowMatch = -1
    /\ result = [trace |-> NilTrace, err |-> NilErr]
    /\ events = <<>>
    /\ openIters = <<>>
    /\ fault = "ok"

\* line 77: a call of Pipeline.evaluate, result = input
EvalInit ==
    /\ pipeline \in Pipelines
    /\ input \in Inputs
    /\ evalPc = "eval"
    /\ evalIdx = 1
    /\ evalResult = input
    /\ evalErr = NilErr
    /\ evalLog = <<>>
    /\ cancelledAt = -1
    /\ FindIdle
    /\ ValidateIdle
    /\ ExtIdle

EvalNext ==
    \/ EvaluateElement
    \/ EvaluateReturn

SpecEval == EvalInit /\ [][EvalNext]_vars

\* the caller cancels the token it holds while the pipeline is evaluated;
\* evaluate takes no token (lines 76 and 225) and no step of it reads one
Cancel ==
    /\ evalPc = "eval"
    /\ cancelledAt = -1
    /\ cancelledAt' = Len(evalLog)
    /\ UNCHANGED <<pipeline, input, evalPc, evalIdx, evalResult, evalErr, evalLog>>
    /\ UNCHANGED <<findVars, validateVars, extVars>>

CancelNext ==
    \/ EvaluateElement
    \/ EvaluateReturn
    \/ Cancel

\* the evaluation of a pipeline whose caller may cancel at any moment
SpecCancel == EvalInit /\ [][CancelNext]_vars


-----------------------------------------------------------------------------
(* Properties of Pipeline.evaluate and SpansetFilter.evaluate, checked under
   SpecEval *)

\* C7: Pipeline.evaluate evaluates its elements in declared order, the first
\* on the input and each other on the output of the one before it; no
\* element is evaluated after an element that returned an empty list (or an
\* error); and the call returns an empty list as soon as an element's output
\* is empty, the last element's output otherwise.
C7_OrderAndShortCircuit ==
    /\ \A k \in 1..Len(evalLog) :
         /\ evalLog[k].idx = k
         /\ evalLog[k].in = (IF k = 1 THEN input ELSE evalLog[k - 1].out)
         /\ k < Len(evalLog) => evalLog[k].err = NilErr /\ evalLog[k].out # <<>>
    /\ evalPc = "done" =>
         LET n == Len(evalLog) IN
         IF n > 0 /\ evalLog[n].err # NilErr
         THEN evalResult = <<>> /\ evalErr = evalLog[n].err
         ELSE IF n > 0 /\ evalLog[n].out = <<>>
         THEN evalResult = <<>> /\ evalErr = NilErr
         ELSE /\ n = Len(pipeline)
              /\ evalResult = (IF n = 0 THEN input ELSE evalLog[n].out)
              /\ evalErr = NilErr

\* C7's case: a filter on the literal false followed by an aggregate, on an
\* input that holds a span: the call is over, only the filter was evaluated
C7_Witness ==
    /\ evalPc = "done"
    /\ Len(pipeline) = 2
    /\ pipeline[1] = newSpansetFilter(NewStaticBool(FALSE))
    /\ pipeline[2].kind = "Aggregate"
    /\ \E a \in 1..Len(input) : input[a].Spans # <<>>
    /\ Len(evalLog) = 1
    /\ evalResult = <<>>

\* the spans of ss on which the expression e yields Boolean true
SpansKept(e, ss) ==
    SelectSeq(ss.Spans,
              LAMBDA sp : /\ execute(e, sp).static.Type = TypeBoolean
                          /\ execute(e, sp).static.B = TRUE)

NonEmptySpanset(ss) == ss.Spans # <<>>

\* some span of the list makes the execution of e fail
SomeSpanFails(e, in) ==
    \E a \in 1..Len(in) : \E b \in 1..Len(in[a].Spans) :
        execute(e, in[a].Spans[b]).err # NilErr

\* C8: SpansetFilter.evaluate returns, in the order of the input, a copy of
\* every spanset of which at least one span yields Boolean true, holding
\* exactly its spans that yield Boolean true, in order; a span whose result
\* is not a Boolean is skipped and is no error; no spanset of the output is
\* empty; the input list is as it was.
C8_SpansetFilter ==
    \A k \in 1..Len(evalLog) :
        pipeline[k].kind = "SpansetFilter" =>
            LET e  == pipeline[k].Expression
                in == evalLog[k].in
            IN  /\ evalLog[k].err # NilErr <=> SomeSpanFails(e, in)
                /\ evalLog[k].err = NilErr =>
                     /\ evalLog[k].out =
                          SelectSeq([a \in 1..Len(in) |->
                                        [in[a] EXCEPT !.Spans = SpansKept(e, in[a])]],
                                    NonEmptySpanset)
                     /\ \A a \in 1..Len(evalLog[k].out) :
                          evalLog[k].out[a].Spans # <<>>
                /\ k = 1 => in = input

\* C8's case: a filter on the attribute met a spanset of two spans, one that
\* yields true and one that yields nil, and kept the first alone
C8_Witness ==
    /\ evalLog # <<>>
    /\ pipeline[1] = newSpansetFilter(AttributeX)
    /\ Len(evalLog[1].in) = 1
    /\ Len(evalLog[1].in[1].Spans) = 2
    /\ evalLog[1].in[1].Spans[2].x = NewStaticNil
    /\ evalLog[1].err = NilErr
    /\ Len(evalLog[1].out) = 1
    /\ evalLog[1].out[1].Spans = <<evalLog[1].in[1].Spans[1]>>

\* a is b with some of its elements left out
RECURSIVE IsSubsequence(_, _)
IsSubsequence(a, b) ==
    IF a = <<>> THEN TRUE
    ELSE IF b = <<>> THEN FALSE
    ELSE IF Head(a) = Head(b) THEN IsSubsequence(Tail(a), Tail(b))
    ELSE IsSubsequence(a, Tail(b))

SpansetIDs(list) == [a \in 1..Len(list) |-> list[a].ID]

\* C9: the list a pipeline returns holds spansets of the input only, each at
\* most once and in the order of the input, and the spans of each are spans
\* of that input spanset, each at most once and in their order.
C9_SpanIdentity ==
    (evalPc = "done" /\ evalErr = NilErr) =>
        /\ IsSubsequence(SpansetIDs(evalResult), SpansetIDs(input))
        /\ \A a \in 1..Len(evalResult) :
             \E b \in 1..Len(input) :
                /\ input[b].ID = evalResult[a].ID
                /\ IsSubsequence(evalResult[a].Spans, input[b].Spans)

\* C9's case: of two spansets the first was dropped and the second returned
C9_Witness ==
    /\ evalPc = "done"
    /\ evalErr = NilErr
    /\ Len(input) = 2
    /\ Len(evalLog) >= 1
    /\ Len(evalResult) = 1
    /\ evalResult[1] = input[2]


-----------------------------------------------------------------------------
(* TraceQL: types and operators *)

\* StaticType.isNumeric
isNumeric(t) == t \in {TypeInt, TypeFloat, TypeDuration}

\* StaticType.isMatchingOperand: the same type, or either is an attribute,
\* or an int and a status
isMatchingOperand(t, otherT) ==
    \/ t = otherT
    \/ t = TypeAttribute
    \/ otherT = TypeAttribute
    \/ {t, otherT} = {TypeInt, TypeStatus}

\* the operators of the model: an arithmetic one, two comparisons, a logical
\* one and a regular expression match; the two unary ones
BinaryOperators == {"OpAdd", "OpEqual", "OpGreater", "OpAnd", "OpRegex"}
UnaryOperators == {"OpNot", "OpSub"}

\* Operator.isBoolean: comparison, logical, regex match
isBoolean(op) == op \in {"OpEqual", "OpGreater", "OpAnd", "OpRegex", "OpNot"}

\* the legality of an operator for one operand type
binaryTypeValid(op, t) ==
    \/ t = TypeAttribute
    \/ t = TypeBoolean /\ op \in {"OpAnd", "OpEqual"}
    \/ isNumeric(t) /\ op \in {"OpAdd", "OpEqual", "OpGreater"}
    \/ t = TypeString /\ op \in {"OpEqual", "OpRegex"}
    \/ t \in {TypeNil, TypeStatus} /\ op = "OpEqual"

\* Operator.binaryTypesValid: driven by the two types alone
binaryTypesValid(op, lhsT, rhsT) == binaryTypeValid(op, lhsT) /\ binaryTypeValid(op, rhsT)

\* Operator.unaryTypesValid
unaryTypesValid(op, t) ==
    \/ t = TypeAttribute
    \/ op = "OpSub" /\ isNumeric(t)
    \/ op = "OpNot" /\ t = TypeBoolean

\* Attribute.impliedType
AttributeImpliedType(a) ==
    CASE a.Intrinsic = IntrinsicDuration   -> TypeDuration
      [] a.Intrinsic = IntrinsicChildCount -> TypeInt
      [] a.Intrinsic = IntrinsicName       -> TypeString
      [] a.Intrinsic = IntrinsicStatus     -> TypeStatus
      [] a.Intrinsic = IntrinsicParent     -> TypeNil
      [] OTHER                             -> TypeAttribute

\* impliedType of a typed expression
RECURSIVE impliedType(_)
impliedType(n) ==
    CASE n.kind = "Static" -> n.Type
      [] n.kind = "Attribute" -> AttributeImpliedType(n)
      [] n.kind \in {"BinaryOperation", "ScalarOperation"} ->
            IF isBoolean(n.Op) THEN TypeBoolean
            ELSE IF impliedType(n.LHS) # TypeAttribute THEN impliedType(n.LHS)
            ELSE impliedType(n.RHS)
      [] n.kind = "UnaryOperation" -> impliedType(n.Expression)
      [] n.kind = "Aggregate" ->
            IF n.agg = "count" \/ n.e = NilExpression THEN TypeInt
            ELSE impliedType(n.e)
      [] n.kind = "Pipeline" ->
            IF Len(n.Elements) = 0 THEN TypeSpanset
            ELSE IF n.Elements[Len(n.Elements)].kind = "Aggregate"
            THEN impliedType(n.Elements[Len(n.Elements)])
            ELSE TypeSpanset

\* referencesSpan of a field expression
RECURSIVE referencesSpan(_)
referencesSpan(n) ==
    CASE n.kind = "Static" -> FALSE
      [] n.kind = "Attribute" -> TRUE
      [] n.kind = "BinaryOperation" -> referencesSpan(n.LHS) \/ referencesSpan(n.RHS)
      [] n.kind = "UnaryOperation" -> referencesSpan(n.Expression)

-----------------------------------------------------------------------------
(* TraceQL: validate *)

\* fmt.Errorf(msg + ": %s", n.String()): the node stands for its string form
Errorf(msg, n) == [msg |-> msg, at |-> n]

RECURSIVE validate(_)

\* Pipeline.validate: the first error of the elements, in order
RECURSIVE validateElements(_)
validateElements(elements) ==
    IF elements = <<>> THEN NoError
    ELSE IF validate(Head(elements)) # NoError THEN validate(Head(elements))
    ELSE validateElements(Tail(elements))

validateGroupOperation(o) ==
    IF ~referencesSpan(o.Expression)
    THEN Errorf("grouping field expressions must reference the span", o)
    ELSE validate(o.Expression)

validateScalarOperation(o) ==
    IF validate(o.LHS) # NoError THEN validate(o.LHS)
    ELSE IF validate(o.RHS) # NoError THEN validate(o.RHS)
    ELSE IF ~isMatchingOperand(impliedType(o.LHS), impliedType(o.RHS))
    THEN Errorf("binary operations must operate on the same type", o)
    ELSE IF ~binaryTypesValid(o.Op, impliedType(o.LHS), impliedType(o.RHS))
    THEN Errorf("illegal operation for the given types", o)
    ELSE NoError

validateAggregate(a) ==
    IF a.e = NilExpression THEN NoError
    ELSE IF validate(a.e) # NoError THEN validate(a.e)
    ELSE IF impliedType(a.e) # TypeAttribute /\ ~isNumeric(impliedType(a.e))
    THEN Errorf("aggregate field expressions must resolve to a number type", a)
    ELSE IF ~referencesSpan(a.e)
    THEN Errorf("aggregate field expressions must reference the span", a)
    ELSE NoError

validateSpansetOperation(o) ==
    IF validate(o.LHS) # NoError THEN validate(o.LHS)
    ELSE validate(o.RHS)

\* the filter's type test left out
validateSpansetFilter_AnyType(f) == validate(f.Expression)

validateSpansetFilter(f) ==
    IF validate(f.Expression) # NoError THEN validate(f.Expression)
    ELSE IF impliedType(f.Expression) # TypeAttribute
            /\ impliedType(f.Expression) # TypeBoolean
    THEN Errorf("span filter field expressions must resolve to a boolean", f)
    ELSE NoError

validateScalarFilter(f) ==
    IF validate(f.lhs) # NoError THEN validate(f.lhs)
    ELSE IF validate(f.rhs) # NoError THEN validate(f.rhs)
    ELSE IF ~isMatchingOperand(impliedType(f.lhs), impliedType(f.rhs))
    THEN Errorf("binary operations must operate on the same type", f)
    ELSE IF ~binaryTypesValid(f.op, impliedType(f.lhs), impliedType(f.rhs))
    THEN Errorf("illegal operation for the given types", f)
    ELSE NoError

\* the operands' types checked without the isMatchingOperand test
validateBinaryOperation_NoMatchingTest(o) ==
    IF validate(o.LHS) # NoError THEN validate(o.LHS)
    ELSE IF validate(o.RHS) # NoError THEN validate(o.RHS)
    ELSE IF ~binaryTypesValid(o.Op, impliedType(o.LHS), impliedType(o.RHS))
    THEN Errorf("illegal operation for the given types", o)
    ELSE NoError

validateBinaryOperation(o) ==
    IF validate(o.LHS) # NoError THEN validate(o.LHS)
    ELSE IF validate(o.RHS) # NoError THEN validate(o.RHS)
    ELSE IF ~isMatchingOperand(impliedType(o.LHS), impliedType(o.RHS))
    THEN Errorf("binary operations must operate on the same type", o)
    ELSE IF ~binaryTypesValid(o.Op, impliedType(o.LHS), impliedType(o.RHS))
    THEN Errorf("illegal operation for the given types", o)
    ELSE NoError

validateUnaryOperation(o) ==
    IF validate(o.Expression) # NoError THEN validate(o.Expression)
    ELSE IF impliedType(o.Expression) = TypeAttribute THEN NoError
    ELSE IF ~unaryTypesValid(o.Op, impliedType(o.Expression))
    THEN Errorf("illegal operation for the given type", o)
    ELSE NoError

\* the validate method of each kind of node
validate(n) ==
    CASE n.kind = "Pipeline" -> validateElements(n.Elements)
      [] n.kind = "GroupOperation" -> validateGroupOperation(n)
      [] n.kind = "CoalesceOperation" -> NoError
      [] n.kind = "ScalarOperation" -> validateScalarOperation(n)
      [] n.kind = "Aggregate" -> validateAggregate(n)
      [] n.kind = "SpansetOperation" -> validateSpansetOperation(n)
      [] n.kind = "SpansetFilter" -> validateSpansetFilter(n)
      [] n.kind = "ScalarFilter" -> validateScalarFilter(n)
      [] n.kind = "BinaryOperation" -> validateBinaryOperation(n)
      [] n.kind = "UnaryOperation" -> validateUnaryOperation(n)
      [] n.kind = "Static" -> NoError
      [] n.kind = "Attribute" -> NoError


\* the nodes validated: leaves, operations on leaves, and operations whose
\* operands are those
StaticLeaves ==
    {NewStaticInt(1), NewStaticFloat("1.5"), NewStaticString("a"), NewStaticBool(TRUE),
     NewStaticNil, NewStaticDuration(1), NewStaticStatus(1)}

AttributeLeaves ==
    {NewAttribute("x")}
    \cup {NewIntrinsic(n) : n \in {IntrinsicDuration, IntrinsicChildCount,
                                   IntrinsicName, IntrinsicStatus, IntrinsicParent}}

Leaves == StaticLeaves \cup AttributeLeaves

InnerOperands == {NewStaticInt(1), NewAttribute("x")}

UnaryOperands ==
    {NewStaticInt(1), NewStaticString("a"), NewStaticBool(TRUE), NewAttribute("x")}

FieldOperands ==
    Leaves
    \cup {newUnaryOperation(op, e) : op \in UnaryOperators, e \in UnaryOperands}
    \cup {newBinaryOperation(op, l, r) : op \in {"OpAdd", "OpAnd"}, l, r \in InnerOperands}

AggregateOperands ==
    {NilExpression, NewStaticInt(1), NewAttribute("x"), NewIntrinsic(IntrinsicName),
     newUnaryOperation("OpSub", NewStaticString("a"))}

ScalarOperands ==
    StaticLeaves
    \cup {newAggregate(agg, e) : agg \in {"count", "sum"}, e \in AggregateOperands}
    \cup {newPipeline(<<>>),
          newPipeline(<<newAggregate("count", NilExpression)>>),
          newPipeline(<<newSpansetFilter(NewStaticInt(1))>>),
          newPipeline(<<newSpansetFilter(NewAttribute("x")),
                        newAggregate("sum", NewIntrinsic(IntrinsicDuration))>>)}
    \cup {newScalarOperation(op, l, r) :
             op \in {"OpAdd", "OpEqual"}, l, r \in {NewStaticInt(1), NewStaticString("a")}}

\* what a GroupOperation may group by: a field expression, a mismatch of
\* two constants included
GroupOperands ==
    FieldOperands
    \cup {newBinaryOperation("OpEqual", NewStaticInt(1), NewStaticString("a")),
          newBinaryOperation("OpEqual", NewAttribute("x"),
                             newBinaryOperation("OpEqual", NewStaticInt(1),
                                                NewStaticString("a")))}

SpansetOperands ==
    {newSpansetFilter(e) :
        e \in {NewStaticBool(TRUE), NewAttribute("x"), NewStaticInt(1),
               newBinaryOperation("OpEqual", NewStaticInt(1), NewStaticString("a"))}}

Nodes ==
    FieldOperands
    \cup ScalarOperands
    \cup {newBinaryOperation(op, l, r) : op \in BinaryOperators, l, r \in FieldOperands}
    \cup {newScalarOperation(op, l, r) : op \in BinaryOperators, l, r \in ScalarOperands}
    \cup {newScalarFilter(op, l, r) : op \in BinaryOperators, l, r \in ScalarOperands}
    \cup {newSpansetFilter(e) : e \in FieldOperands}
    \cup {newGroupOperation(e) : e \in GroupOperands}
    \cup {newSpansetOperation("OpSpansetAnd", l, r) : l, r \in SpansetOperands}
    \cup {newCoalesceOperation}

\* n.validate()
Validate ==
    /\ validatePc = "validate"
    /\ verdict' = validate(node)
    /\ validatePc' = "done"
    /\ UNCHANGED node
    /\ UNCHANGED <<findVars, evalVars, extVars>>

\* a node is handed to validate
ValidateInit ==
    /\ node \in Nodes
    /\ validatePc = "validate"
    /\ verdict = NoError
    /\ FindIdle
    /\ EvalIdle
    /\ ExtIdle

ValidateNext == Validate

SpecValidate == ValidateInit /\ [][ValidateNext]_vars

-----------------------------------------------------------------------------
(* Properties of validate, checked under SpecValidate *)

\* the operator and the operands of a BinaryOperation, a ScalarOperation or
\* a ScalarFilter
OperatorOf(n) == IF n.kind = "ScalarFilter" THEN n.op ELSE n.Op
LeftOf(n) == IF n.kind = "ScalarFilter" THEN n.lhs ELSE n.LHS
RightOf(n) == IF n.kind = "ScalarFilter" THEN n.rhs ELSE n.RHS

OperandTypesMatch(n) == isMatchingOperand(impliedType(LeftOf(n)), impliedType(RightOf(n)))

OperandTypesLegal(n) ==
    binaryTypesValid(OperatorOf(n), impliedType(LeftOf(n)), impliedType(RightOf(n)))

\* C10: the validation of a BinaryOperation, a ScalarOperation or a
\* ScalarFilter succeeds if and only if both operands validate, their types
\* match (isMatchingOperand) and are legal for the operator
\* (binaryTypesValid); otherwise the error is the left operand's error, else
\* the right operand's, else "binary operations must operate on the same
\* type", else "illegal operation for the given types", the last two with
\* the node itself.
C10_BinaryValidation ==
    (validatePc = "done"
     /\ node.kind \in {"BinaryOperation", "ScalarOperation", "ScalarFilter"}) =>
        LET lerr == validate(LeftOf(node))
            rerr == validate(RightOf(node))
        IN  /\ verdict = NoError <=>
                 /\ lerr = NoError
                 /\ rerr = NoError
                 /\ OperandTypesMatch(node)
                 /\ OperandTypesLegal(node)
            /\ lerr # NoError => verdict = lerr
            /\ (lerr = NoError /\ rerr # NoError) => verdict = rerr
            /\ (lerr = NoError /\ rerr = NoError /\ ~OperandTypesMatch(node)) =>
                 verdict = [msg |-> "binary operations must operate on the same type",
                            at |-> node]
            /\ (lerr = NoError /\ rerr = NoError /\ OperandTypesMatch(node)
                /\ ~OperandTypesLegal(node)) =>
                 verdict = [msg |-> "illegal operation for the given types",
                            at |-> node]

\* C10's case: a binary operation whose operands validate and whose types
\* neither match nor are legal for the operator: the error is the mismatch
C10_Witness ==
    /\ validatePc = "done"
    /\ node.kind = "BinaryOperation"
    /\ validate(node.LHS) = NoError
    /\ validate(node.RHS) = NoError
    /\ ~OperandTypesMatch(node)
    /\ ~OperandTypesLegal(node)
    /\ verdict.msg = "binary operations must operate on the same type"

\* C11: the validation of a SpansetFilter succeeds if and only if its field
\* expression validates and the expression's implied type is Boolean or
\* Attribute; an expression of any other implied type is rejected, with the
\* expression's own error first.
C11_SpansetFilterValidation ==
    (validatePc = "done" /\ node.kind = "SpansetFilter") =>
        LET err == validate(node.Expression)
            t == impliedType(node.Expression)
        IN  /\ verdict = NoError <=>
                 (err = NoError /\ t \in {TypeBoolean, TypeAttribute})
            /\ err # NoError => verdict = err
            /\ (err = NoError
                /\ t \in {TypeInt, TypeFloat, TypeString, TypeDuration,
                           TypeStatus, TypeNil}) =>
                 verdict = [msg |-> "span filter field expressions must resolve to a boolean",
                            at |-> node]

\* C11's case: a filter whose expression validates and is of a type that is
\* neither Boolean nor Attribute is rejected
C11_Witness ==
    /\ validatePc = "done"
    /\ node.kind = "SpansetFilter"
    /\ validate(node.Expression) = NoError
    /\ impliedType(node.Expression) = TypeDuration
    /\ verdict.msg = "span filter field expressions must resolve to a boolean"

\* the children of a node, in the order a bottom-up traversal visits them
Children(n) ==
    CASE n.kind = "Pipeline" -> n.Elements
      [] n.kind \in {"GroupOperation", "SpansetFilter", "UnaryOperation"} ->
            <<n.Expression>>
      [] n.kind \in {"ScalarOperation", "SpansetOperation", "BinaryOperation"} ->
            <<n.LHS, n.RHS>>
      [] n.kind = "ScalarFilter" -> <<n.lhs, n.rhs>>
      [] n.kind = "Aggregate" -> IF n.e = NilExpression THEN <<>> ELSE <<n.e>>
      [] OTHER -> <<>>

\* the error of the first child that does not validate
RECURSIVE FirstError(_)
FirstError(children) ==
    IF children = <<>> THEN NoError
    ELSE IF validate(Head(children)) # NoError THEN validate(Head(children))
    ELSE FirstError(Tail(children))

\* C12: the validator is a bottom-up traversal that reports the first
\* failure: for every node with children, GroupOperation included, when a
\* child does not validate the error returned is that child's error and not
\* the error of the node's own constraint.
C12_ChildrenFirst ==
    (validatePc = "done" /\ FirstError(Children(node)) # NoError) =>
        verdict = FirstError(Children(node))

\* C12 for every node but the GroupOperation: a child's error comes first
C12_ChildrenFirstButGroup ==
    (validatePc = "done" /\ node.kind # "GroupOperation"
     /\ FirstError(Children(node)) # NoError) =>
        verdict = FirstError(Children(node))

\* C12's case: a GroupOperation whose expression does not validate
C12_Witness ==
    /\ validatePc = "done"
    /\ node.kind = "GroupOperation"
    /\ validate(node.Expression) # NoError
    /\ ~referencesSpan(node.Expression)

-----------------------------------------------------------------------------
(* Cancellation, checked under SpecCancel *)

\* the calls of a filter made after the cancellation that went over two
\* spansets or more without an error: a boundary between two spansets was
\* passed with the token cancelled
PassedBoundaryCancelled ==
    {k \in 1..Len(evalLog) :
        /\ cancelledAt >= 0
        /\ k > cancelledAt
        /\ pipeline[k].kind = "SpansetFilter"
        /\ Len(evalLog[k].in) >= 2
        /\ evalLog[k].err = NilErr}

\* C13: evaluation observes cancellation: when the token is cancelled while
\* a pipeline is evaluated, the evaluator notices it at the next boundary
\* between spansets and returns a Cancelled error instead of evaluating the
\* remaining spansets and returning a result.
C13_CancellationObserved ==
    (evalPc = "done" /\ PassedBoundaryCancelled # {}) => evalErr = "Cancelled"

-----------------------------------------------------------------------------
(* The elements that are not implemented, checked under SpecStub *)

StubKinds == {"Aggregate", "GroupOperation", "ScalarFilter", "CoalesceOperation"}

\* aggregates, groupings and scalar filters of every operator and of operands
\* of every shape, valid or not, and coalesce
StubElements ==
    {n \in Nodes : n.kind \in {"GroupOperation", "CoalesceOperation"}}
    \cup {newAggregate(agg, e) : agg \in {"count", "sum", "max"}, e \in AggregateOperands}
    \cup {newScalarFilter(op, l, r) :
             op \in BinaryOperators,
             l \in {newAggregate("count", NilExpression),
                    newAggregate("sum", NewAttribute("x"))},
             r \in {NewStaticInt(1), NewStaticString("a"),
                    newAggregate("count", NilExpression)}}

\* a pipeline of one such element is evaluated
StubInit ==
    /\ pipeline \in {<<e>> : e \in StubElements}
    /\ input \in Inputs
    /\ evalPc = "eval"
    /\ evalIdx = 1
    /\ evalResult = input
    /\ evalErr = NilErr
    /\ evalLog = <<>>
    /\ cancelledAt = -1
    /\ FindIdle
    /\ ValidateIdle
    /\ ExtIdle

SpecStub == StubInit /\ [][EvalNext]_vars

\* C14: Aggregate, GroupOperation, ScalarFilter and CoalesceOperation
\* evaluate as the identity: for every input list, evaluate returns exactly
\* that list (same spansets, same spans, same order) with a nil error,
\* whatever their operator and operands are.
C14_StubsAreIdentity ==
    /\ \A k \in 1..Len(evalLog) :
         pipeline[evalLog[k].idx].kind \in StubKinds =>
            /\ evalLog[k].out = evalLog[k].in
            /\ evalLog[k].err = NilErr
    /\ (evalPc = "done" /\ pipeline[1].kind \in StubKinds) =>
            /\ evalResult = input
            /\ evalErr = NilErr

\* C14's case: count() > 1 has been evaluated on two spansets of one span
\* each and has returned both
C14_Witness ==
    /\ evalPc = "done"
    /\ pipeline[1].kind = "ScalarFilter"
    /\ pipeline[1].op = "OpGreater"
    /\ Len(input) = 2
    /\ Len(evalLog) = 1
    /\ evalResult = input
    /\ evalErr = NilErr

-----------------------------------------------------------------------------
(* Static.Equals, checked under SpecEquals *)

\* the integer payloads compared are 0 .. MaxPayload
MaxPayload == 2

\* the values the constructors build
Statics ==
    {NewStaticInt(n) : n \in 0..MaxPayload}
    \cup {NewStaticStatus(n) : n \in 0..MaxPayload}
    \cup {NewStaticDuration(n) : n \in 0..MaxPayload}
    \cup {NewStaticFloat(f) : f \in {"0.0", "1.5", NaN}}
    \cup {NewStaticString(str) : str \in {"", "a"}}
    \cup {NewStaticBool(b) : b \in BOOLEAN}
    \cup {NewStaticNil}

\* s.Equals(other)
CallEquals ==
    /\ equalsPc = "equals"
    /\ equalsResult' = Equals(receiver, argument)
    /\ equalsPc' = "done"
    /\ UNCHANGED <<receiver, argument>>
    /\ UNCHANGED <<findVars, evalVars, validateVars, callVars, searchVars, addVars>>

EqualsInit ==
    /\ receiver \in Statics
    /\ argument \in Statics
    /\ equalsPc = "equals"
    /\ equalsResult = FALSE
    /\ CallIdle
    /\ SearchIdle
    /\ AddIdle
    /\ FindIdle
    /\ EvalIdle
    /\ ValidateIdle

EqualsNext == CallEquals

SpecEquals == EqualsInit /\ [][EqualsNext]_vars

\* the payload of a Static: the slot of its type
Payload(a) ==
    CASE a.Type = TypeInt -> a.N
      [] a.Type = TypeFloat -> a.F
      [] a.Type = TypeString -> a.S
      [] a.Type = TypeBoolean -> a.B
      [] a.Type = TypeDuration -> a.D
      [] a.Type = TypeStatus -> a.Status
      [] OTHER -> 0

IntAndStatus(a, b) == {a.Type, b.Type} = {TypeInt, TypeStatus}

SameTagAndPayload(a, b) == a.Type = b.Type /\ Payload(a) = Payload(b)

IsNaN(a) == a.Type = TypeFloat /\ a.F = NaN

\* C15 as stated: Int(n) equals Status(n) in both operand orders and Int(n)
\* does not equal Status(m) for m # n; for every other pair of types, two
\* Statics are equal iff they have the same type tag and the same payload;
\* consequently Equals is reflexive and symmetric.
C15_Original ==
    equalsPc = "done" =>
        /\ IntAndStatus(receiver, argument) =>
              (equalsResult <=> Payload(receiver) = Payload(argument))
        /\ ~IntAndStatus(receiver, argument) =>
              (equalsResult <=> SameTagAndPayload(receiver, argument))
        /\ receiver = argument => equalsResult
        /\ equalsResult = Equals(argument, receiver)

\* C15 amended: as stated for every Static but a Float that is not a number,
\* which equals no Static, itself included; Equals is symmetric, and
\* reflexive on every Static but such a Float.
C15_Equals ==
    equalsPc = "done" =>
        /\ IntAndStatus(receiver, argument) =>
              (equalsResult <=> Payload(receiver) = Payload(argument))
        /\ ~IntAndStatus(receiver, argument) =>
              (equalsResult <=> (SameTagAndPayload(receiver, argument)
                                 /\ ~IsNaN(receiver)))
        /\ (receiver = argument /\ ~IsNaN(receiver)) => equalsResult
        /\ IsNaN(receiver) => ~equalsResult
        /\ equalsResult = Equals(argument, receiver)

\* C15's case: an Int receiver compared with the Status of the same number
C15_Witness ==
    /\ equalsPc = "done"
    /\ receiver = NewStaticInt(1)
    /\ argument = NewStaticStatus(1)
    /\ equalsResult

-----------------------------------------------------------------------------
(* Two calls of FindTraceByID on the same block, checked under SpecTwo *)

\* the locals of the running call: traceID is its argument, the others are
\* declared in the call (lines 64-186), rowGroupMins among them (line 88)
Frame ==
    [traceID |-> traceID, pc |-> pc, rowGroupMins |-> rowGroupMins, i |-> i, j |-> j,
     rowGroup |-> rowGroup, rowMatch |-> rowMatch, result |-> result,
     events |-> events, openIters |-> openIters]

\* the cache of bounds kept in the block: a call that resumes finds the
\* cache as the other call left it
Resume_SharedMins(frame, running) ==
    IF running.rowGroupMins = <<>> \/ frame.rowGroupMins = <<>> THEN frame
    ELSE [frame EXCEPT !.rowGroupMins = running.rowGroupMins]

\* what a call finds in its locals when it runs again: what it left there
Resume(frame, running) == frame

InSearch(frame) == frame.pc \in {"search", "scan", "seek"}

\* the scheduler runs the other call
Switch ==
    /\ Len(alone) = 2
    /\ suspended.pc # "done"
    /\ LET f == Resume(suspended, Frame) IN
         /\ traceID' = f.traceID
         /\ pc' = f.pc
         /\ rowGroupMins' = f.rowGroupMins
         /\ i' = f.i
         /\ j' = f.j
         /\ rowGroup' = f.rowGroup
         /\ rowMatch' = f.rowMatch
         /\ result' = f.result
         /\ events' = f.events
         /\ openIters' = f.openIters
    /\ suspended' = Frame
    /\ current' = 3 - current
    /\ overlapped' = (overlapped \/ (InSearch(suspended) /\ InSearch(Frame)))
    /\ UNCHANGED <<rowGroups, meta, bloom, fault, callIDs, alone>>
    /\ UNCHANGED <<evalVars, validateVars, equalsVars, searchVars, addVars>>

\* a call that ran alone is over: what it returned and did is kept, and the
\* second call starts alone, or both calls start again, this time together
StartNext ==
    /\ Len(alone) < 2
    /\ pc = "done"
    /\ alone' = Append(alone, [result |-> result, events |-> events])
    /\ LET f == FreshFrame(callIDs[IF Len(alone) = 0 THEN 2 ELSE 1]) IN
         /\ traceID' = f.traceID
         /\ pc' = f.pc
         /\ rowGroupMins' = f.rowGroupMins
         /\ i' = f.i
         /\ j' = f.j
         /\ rowGroup' = f.rowGroup
         /\ rowMatch' = f.rowMatch
         /\ result' = f.result
         /\ events' = f.events
         /\ openIters' = f.openIters
    /\ current' = IF Len(alone) = 0 THEN 2 ELSE 1
    /\ suspended' = IF Len(alone) = 0 THEN suspended ELSE FreshFrame(callIDs[2])
    /\ UNCHANGED <<rowGroups, meta, bloom, fault, callIDs, overlapped>>
    /\ UNCHANGED <<evalVars, validateVars, equalsVars, searchVars, addVars>>

\* a step of the running call, the storage answering every read
StepOfCall == Next /\ fault' = "ok"

\* the blocks the two calls meet: every id of the range stored but one at
\* most, each row group in ascending order; the calls are named in the order
\* of their ids, and the scheduler runs them in any order
TwoBlocks ==
    {b \in Blocks :
        /\ Len(Flatten(b)) >= MaxByte
        /\ \A k \in 1..(Len(Flatten(b)) - 1) :
              Compare(Flatten(b)[k], Flatten(b)[k + 1]) < 0}

TwoInit ==
    /\ rowGroups \in TwoBlocks
    /\ meta = [MinID |-> <<SetMinimum({x[1] : x \in StoredIDs})>>,
               MaxID |-> <<SetMaximum({x[1] : x \in StoredIDs})>>]
    /\ callIDs \in {p \in IDs \X IDs : Compare(p[1], p[2]) <= 0}
    /\ traceID = callIDs[1]
    /\ bloom \in {StoredIDs, StoredIDs \cup {callIDs[1], callIDs[2]}}
    /\ pc = "checkBloom"
    /\ rowGroupMins = <<>>
    /\ i = 0
    /\ j = 0
    /\ rowGroup = -1
    /\ rowMatch = -1
    /\ result = [trace |-> NilTrace, err |-> NilErr]
    /\ events = <<>>
    /\ openIters = <<>>
    /\ fault = "ok"
    /\ current = 1
    /\ suspended = NoFrame
    /\ alone = <<>>
    /\ overlapped = FALSE
    /\ EvalIdle
    /\ ValidateIdle
    /\ EqualsIdle
    /\ SearchIdle
    /\ AddIdle

TwoNext ==
    \/ StepOfCall
    \/ StartNext
    \/ Switch

SpecTwo == TwoInit /\ [][TwoNext]_vars

\* the calls that are over, running together
DoneTogether ==
    IF Len(alone) < 2 THEN {}
    ELSE {c \in {1, 2} : (IF c = current THEN pc ELSE suspended.pc) = "done"}

FrameOf(c) == IF c = current THEN Frame ELSE suspended

\* C16: two calls of FindTraceByID on one block are safe: the cache of
\* bounds is created per call and no call writes state that another call
\* reads, so under every interleaving of the two calls each call returns
\* what it returns when it runs alone, having done the same reads.
C16_ConcurrentCalls ==
    \A c \in DoneTogether :
        /\ FrameOf(c).result = alone[c].result
        /\ FrameOf(c).events = alone[c].events

\* C16's case: two calls for two stored ids have been in their search at
\* the same time, have both loaded a bound from storage, and are both over
C16_Witness ==
    /\ DoneTogether = {1, 2}
    /\ overlapped
    /\ callIDs[1] # callIDs[2]
    /\ \A c \in {1, 2} :
         /\ ~FrameOf(c).result.trace.nil
         /\ \E n \in 1..Len(FrameOf(c).events) :
               /\ FrameOf(c).events[n].op = "iter.Next"
               /\ FrameOf(c).rowGroupMins[FrameOf(c).events[n].arg] # NilID
               /\ FrameOf(c).events[n].arg \in 1..(numRowGroups - 1)

-----------------------------------------------------------------------------
(* Corruption and the cache of bounds, checked under Spec *)

\* the failures of a corrupt block: no TraceID column in the file, a row
\* group that yields no value for its bound, a row that cannot be sought or
\* read
Corruptions == {"noTraceIDColumn", "noValue", "seekErr", "readErr"}

\* the reads of the probe that failed are the last reads of the call
ProbeWasLast ==
    /\ Len(events) >= 3
    /\ events[Len(events) - 2].op = "iter.Open"
    /\ events[Len(events) - 1].op = "iter.Next"
    /\ events[Len(events)].op = "iter.Close"
    /\ events[Len(events)].arg \in 1..(numRowGroups - 1)
    /\ rowGroupMins[events[Len(events)].arg] = NilID

\* C17: corruption is loud and fatal for the call: when the TraceID column
\* is not found in the file, or a row group probed for its bound yields no
\* value, or seeking or reading the matched row fails, FindTraceByID returns
\* a non-nil error and a nil trace, never (nil, nil), and the binary search
\* stops at the first error of the comparator.
C17_CorruptionIsLoud ==
    fault \in Corruptions =>
        /\ pc = "done"
        /\ result.err # NilErr
        /\ result.trace = NilTrace
        /\ result # NotFoundResult
        /\ fault = "noTraceIDColumn" =>
              /\ result.err = "unable to get index for column"
              /\ events[Len(events)].op = "openForSearch"
        /\ fault = "noValue" =>
              /\ result.err = "error binary searching row groups"
              /\ rowGroup = -1
              /\ ProbeWasLast
        /\ fault = "seekErr" => result.err = "seek to row"
        /\ fault = "readErr" => result.err = "error reading row from backend"

\* C17's case: a comparison of the binary search has loaded the bound of its
\* row group and probes the next row group, which yields no value; the call
\* returns the error
C17_Witness ==
    /\ fault = "noValue"
    /\ pc = "done"
    /\ result.err = "error binary searching row groups"
    /\ result.trace = NilTrace
    /\ LoadedBounds # {}
    /\ Cardinality(EventsOf("iter.Open")) = 2

\* the reads of bounds made so far by a call that is in its binary search:
\* the positions in events of the probes' iter.Next
BoundReads == IF pc = "search" THEN EventsOf("iter.Next") ELSE {}

\* C18: lazy loading of the bounds within one call on a block with non-empty
\* minID and maxID: mins[0] and mins[rowGroupCount] come from the block's
\* metadata and are never read from storage; every read of a bound targets
\* a row group in [1, rowGroupCount - 1]; each interior bound is read at
\* most once; and an entry of mins that is set never changes for the rest
\* of the call.
C18_LazyBounds ==
    /\ [](/\ rowGroupMins # <<>> =>
               /\ rowGroupMins[0] = meta.MinID
               /\ rowGroupMins[numRowGroups] = meta.MaxID
          /\ \A n \in BoundReads : events[n].arg \in 1..(numRowGroups - 1)
          /\ \A n, k \in BoundReads : events[n].arg = events[k].arg => n = k)
    /\ [][/\ \A r \in DOMAIN rowGroupMins :
               rowGroupMins[r] # NilID => rowGroupMins'[r] = rowGroupMins[r]
          /\ \A n \in (Len(events) + 1)..Len(events') :
               (pc = "search" /\ events'[n].op = "iter.Next") =>
                  /\ events'[n].arg \in 1..(numRowGroups - 1)
                  /\ rowGroupMins[events'[n].arg] = NilID]_vars

\* C18's case: the first comparison has read the bound of row group 1 from
\* storage, the second has found it in the cache, and the search is over
C18_Witness ==
    /\ pc = "scan"
    /\ rowGroup = 0
    /\ numRowGroups = 3
    /\ LoadedBounds = {1}
    /\ rowGroupMins[1] = rowGroups[2][1]
    /\ Cardinality(EventsOf("iter.Next")) = 1

-----------------------------------------------------------------------------
(* binarySearch, checked under SpecSearch *)

\* binarySearch is called with n in 0 .. MaxN
MaxN == 4

\* line 23: an integer that is none of the three a comparison answers
SearchNext == -2

\* what a comparator may answer for an index: an integer, or an error
CompareAnswers ==
    {[c |-> v, err |-> NilErr] : v \in {SearchNext, -1, 0, 1}}
    \cup {[c |-> 0, err |-> "compare"]}

\* the loop is followed for more comparisons than a search that ends makes
MaxCalls == MaxN + 1

\* i = h in place of i = h + 1
NextInterval_KeepsProbe(lo, hi, h, c) ==
    CASE c = -1 -> <<lo, h>>
      [] c = 1  -> <<h, hi>>
      [] OTHER  -> <<lo, hi>>

\* lines 214-222: the switch on c; no case for an answer other than 0, -1, 1
NextInterval(lo, hi, h, c) ==
    CASE c = -1 -> <<lo, h>>
      [] c = 1  -> <<h + 1, hi>>
      [] OTHER  -> <<lo, hi>>

\* lines 207-223: one iteration of the loop
BinarySearchStep ==
    /\ bsPc = "loop"
    /\ bsI < bsJ
    /\ Len(bsCalls) < MaxCalls
    /\ LET h == Midpoint(bsI, bsJ)
           a == compare[h]
       IN  /\ bsCalls' = Append(bsCalls, h)
           /\ IF a.err # NilErr
              THEN /\ bsResult' = [idx |-> -1, err |-> a.err]
                   /\ bsPc' = "done"
                   /\ UNCHANGED <<bsI, bsJ>>
              ELSE IF a.c = 0
              THEN /\ bsResult' = [idx |-> h, err |-> NilErr]
                   /\ bsPc' = "done"
                   /\ UNCHANGED <<bsI, bsJ>>
              ELSE /\ bsI' = NextInterval(bsI, bsJ, h, a.c)[1]
                   /\ bsJ' = NextInterval(bsI, bsJ, h, a.c)[2]
                   /\ UNCHANGED <<bsPc, bsResult>>
    /\ UNCHANGED <<bsN, compare>>
    /\ UNCHANGED <<findVars, evalVars, validateVars, equalsVars, callVars, addVars>>

\* lines 225-226: the loop is over without a match
BinarySearchReturn ==
    /\ bsPc = "loop"
    /\ bsI >= bsJ
    /\ bsResult' = [idx |-> -1, err |-> NilErr]
    /\ bsPc' = "done"
    /\ UNCHANGED <<bsN, compare, bsI, bsJ, bsCalls>>
    /\ UNCHANGED <<findVars, evalVars, validateVars, equalsVars, callVars, addVars>>

\* line 206: i, j := 0, n
SearchInit ==
    /\ bsN \in 0..MaxN
    /\ compare \in [0..(bsN - 1) -> CompareAnswers]
    /\ bsI = 0
    /\ bsJ = bsN
    /\ bsPc = "loop"
    /\ bsResult = [idx |-> -1, err |-> NilErr]
    /\ bsCalls = <<>>
    /\ FindIdle
    /\ EvalIdle
    /\ ValidateIdle
    /\ EqualsIdle
    /\ CallIdle
    /\ AddIdle

SearchNextStep ==
    \/ BinarySearchStep
    \/ BinarySearchReturn

SpecSearch == SearchInit /\ [][SearchNextStep]_vars

NoCompareError == \A h \in DOMAIN compare : compare[h].err = NilErr

TriState == \A h \in DOMAIN compare : compare[h].c \in {-1, 0, 1}

\* 1 up to the match, 0 on it, -1 after it
Monotone ==
    /\ TriState
    /\ \A a, b \in DOMAIN compare : a < b => compare[a].c >= compare[b].c

Zeros == {h \in DOMAIN compare : compare[h].c = 0}

\* what the claim says of the result, of the indices compared and of an
\* iteration that does not return: the interval shrinks, so the loop ends
\* after n iterations at most
SearchResultRight ==
    /\ \A k \in 1..Len(bsCalls) : Monotone => bsCalls[k] \in 0..(bsN - 1)
    /\ (bsPc = "done" /\ Monotone) =>
          /\ bsResult.err = NilErr
          /\ Zeros # {} => bsResult.idx \in Zeros
          /\ Zeros = {} => bsResult.idx = -1
    /\ (bsPc = "done" /\ bsResult.idx # -1) => compare[bsResult.idx].c = 0

IterationShrinks ==
    bsPc' = "done" \/ (0 <= bsJ' - bsI' /\ bsJ' - bsI' < bsJ - bsI)

\* C19 as stated: binarySearch(n, compare) terminates for every n >= 0 and
\* every comparator that returns an integer without error; on a monotone
\* comparator it calls compare only on indices in [0, n), returns the index
\* whose comparison is 0 if there is one and -1 otherwise, and never returns
\* an index whose comparison was not 0.
C19_Original ==
    /\ [](NoCompareError => SearchResultRight)
    /\ [](NoCompareError => Len(bsCalls) <= bsN)
    /\ [][NoCompareError => IterationShrinks]_vars

\* C19 amended: termination for every comparator that answers -1, 0 or 1
\* without error; the rest as stated.
C19_BinarySearch ==
    /\ [](NoCompareError => SearchResultRight)
    /\ []((NoCompareError /\ TriState) => Len(bsCalls) <= bsN)
    /\ [][(NoCompareError /\ TriState) => IterationShrinks]_vars

\* C19's case: a search over four indices whose first compares 0 has
\* compared the indices 2, 1 and 0 and returned 0
C19_Witness ==
    /\ bsPc = "done"
    /\ bsN = 4
    /\ Monotone
    /\ NoCompareError
    /\ Zeros = {0}
    /\ bsCalls = <<2, 1, 0>>
    /\ bsResult = [idx |-> 0, err |-> NilErr]

-----------------------------------------------------------------------------
(* Pipeline.addItem, checked under SpecAdd *)

\* at most MaxPipes pipelines are built, the first by newPipeline with at
\* most MaxArgs elements
MaxPipes == 4
MaxArgs == 2

\* the elements added: coalesce() and by(.x)
Items == {newCoalesceOperation, newGroupOperation(AttributeX)}

\* the slots of an array that no slice has written yet
Zeroes(k) == [x \in 1..k |-> NilExpression]

\* p.Elements, read through the slice header
Elements(p) ==
    IF p.len = 0 THEN <<>> ELSE SubSeq(heap[p.arr], 1, p.len)

\* the capacity of the array append allocates when the slice is full: room
\* for the new element at least, twice the old capacity at most
GrowCap(cap, need) == need..(IF 2 * cap > need THEN 2 * cap ELSE need)

\* lines 57-60: p.Elements = append(p.Elements, i); return p. append writes
\* into the array of p.Elements when it has room, and into a new array that
\* holds a copy of the elements when it has not
AddItem ==
    /\ Len(pipes) < MaxPipes
    /\ \E k \in 1..Len(pipes), item \in Items :
         LET p == pipes[k] IN
         IF p.len < p.cap
         THEN /\ heap' = [heap EXCEPT ![p.arr][p.len + 1] = item]
              /\ pipes' = Append(pipes, [arr |-> p.arr, len |-> p.len + 1,
                                         cap |-> p.cap, src |-> k, item |-> item,
                                         args |-> <<>>])
         ELSE \E c \in GrowCap(p.cap, p.len + 1) :
              /\ heap' = Append(heap, Elements(p) \o <<item>>
                                         \o Zeroes(c - p.len - 1))
              /\ pipes' = Append(pipes, [arr |-> Len(heap) + 1, len |-> p.len + 1,
                                         cap |-> c, src |-> k, item |-> item,
                                         args |-> <<>>])
    /\ UNCHANGED <<findVars, evalVars, validateVars, equalsVars, callVars,
                   searchVars>>

\* lines 51-55: newPipeline(i...) keeps the slice of its arguments
AddInit ==
    /\ \E args \in SeqsUpTo(Items, MaxArgs) :
         /\ heap = IF args = <<>> THEN <<>> ELSE <<args>>
         /\ pipes = <<[arr |-> IF args = <<>> THEN 0 ELSE 1, len |-> Len(args),
                       cap |-> Len(args), src |-> 0, item |-> NilExpression,
                       args |-> args]>>
    /\ FindIdle
    /\ EvalIdle
    /\ ValidateIdle
    /\ EqualsIdle
    /\ CallIdle
    /\ SearchIdle

AddNext == AddItem

SpecAdd == AddInit /\ [][AddNext]_vars

\* C20: Pipeline.addItem is non-destructive: after any sequence of addItem
\* calls, the elements of each pipeline returned are the elements of the
\* pipeline it was derived from followed by the item added, and a later
\* addItem on the same source pipeline changes neither the source nor a
\* pipeline derived from it before.
C20_NonDestructive ==
    \A k \in 1..Len(pipes) :
        IF pipes[k].src = 0
        THEN Elements(pipes[k]) = pipes[k].args
        ELSE Elements(pipes[k]) =
                Append(Elements(pipes[pipes[k].src]), pipes[k].item)

=============================================================================
